---- MODULE Spec2Model ----
(***************************************************************************)
(* SmartSpendAI: the transaction store (App), the CSV importer and the     *)
(* categorize merge (TransactionList), the insight panel (Dashboard), the  *)
(* streaming chat (ChatBot) and the LLM gateway (geminiService).           *)
(* JavaScript strings are TLA+ strings; a component's state exists while   *)
(* its view is the current one and is created afresh on every mount.       *)
(***************************************************************************)
EXTENDS Integers, Sequences, FiniteSets, TLC

VARIABLES
    now,                \* Date.now(), in milliseconds
    currentView,        \* App: useState<AppView>
    transactions,       \* App: useState<Transaction[]>
    storage,            \* localStorage['smartspend_transactions']
    persistDue,         \* App: the effect on [transactions] is yet to run
    fileReads,          \* TransactionList: FileReaders that have not loaded yet
    isAutoCategorizing, \* TransactionList state
    errorMsg,           \* TransactionList state
    catCalls,           \* categorizeTransactions calls in flight
    insight,            \* Dashboard state
    loadingInsight,     \* Dashboard state
    insightError,       \* Dashboard state
    isRateLimit,        \* Dashboard state
    insCalls,           \* getSpendingInsights calls in flight
    messages,           \* ChatBot state
    inputValue,         \* ChatBot state
    isStreaming,        \* ChatBot state
    chatUpdates,        \* ChatBot: state updates queued after an await, not yet rendered
    chatSessionRef,     \* ChatBot: useRef, the session handle
    chatCalls,          \* handleSend runs in flight
    sessionsCreated,    \* number of createChatSession() calls so far
    event,              \* the handler that ran last, with its inputs
    input,              \* argument of the function applied in SpecRateLimit / SpecCsv / SpecInsights
    output              \* its result

vars == <<now, currentView, transactions, storage, persistDue, fileReads,
          isAutoCategorizing, errorMsg, catCalls, insight, loadingInsight, insightError, isRateLimit, insCalls,
          messages, inputValue, isStreaming, chatUpdates, chatSessionRef, chatCalls,
          sessionsCreated, event, input, output>>

(***************************************************************************)
(* Bounds of the model.                                                    *)
(***************************************************************************)
ClockStart == 1000
MaxTicks == 1
MaxStore == 10
MaxInFlight == 2
MaxReads == 1
MaxResults == 2
MaxChunks == 3
MaxMessages == 5
MaxSessions == 2
MaxPieces == 2
MaxRows == 2
MaxTx == 52
MaxImported == 11

Null == "<null>"
Unset == "<unset>"

(***************************************************************************)
(* String primitives of the JavaScript runtime.                            *)
(***************************************************************************)
CharAt(s, i) == SubSeq(s, i, i)

\* String.prototype.startsWith(sub, i - 1)
StartsWithAt(s, sub, i) ==
    i + Len(sub) - 1 <= Len(s) /\ SubSeq(s, i, i + Len(sub) - 1) = sub

RECURSIVE IndexFrom(_, _, _)
\* String.prototype.indexOf(sub, i - 1) + 1, 0 when absent
IndexFrom(s, sub, i) ==
    IF i + Len(sub) - 1 > Len(s) THEN 0
    ELSE IF StartsWithAt(s, sub, i) THEN i
    ELSE IndexFrom(s, sub, i + 1)

\* String.prototype.includes
Includes(s, sub) ==
    \E i \in 1..(Len(s) - Len(sub) + 1) : SubSeq(s, i, i + Len(sub) - 1) = sub

RECURSIVE Split(_, _)
\* String.prototype.split(sep) for a one-character separator
Split(s, sep) ==
    LET i == IndexFrom(s, sep, 1)
    IN  IF i = 0 THEN <<s>>
        ELSE <<SubSeq(s, 1, i - 1)>> \o Split(SubSeq(s, i + 1, Len(s)), sep)

\* the WhiteSpace and LineTerminator characters of one byte: space, tab, line
\* feed, carriage return, form feed and vertical tab (U+000B, which has no
\* escape and stands in the last string as the character itself)
WhiteSpace == {" ", "\t", "\n", "\r", "\f", ""}

RECURSIVE TrimStart(_)
TrimStart(s) ==
    IF Len(s) > 0 /\ CharAt(s, 1) \in WhiteSpace
    THEN TrimStart(SubSeq(s, 2, Len(s))) ELSE s

RECURSIVE TrimEnd(_)
TrimEnd(s) ==
    IF Len(s) > 0 /\ CharAt(s, Len(s)) \in WhiteSpace
    THEN TrimEnd(SubSeq(s, 1, Len(s) - 1)) ELSE s

\* String.prototype.trim
Trim(s) == TrimEnd(TrimStart(s))

RECURSIVE Join(_, _)
\* Array.prototype.join
Join(ss, sep) ==
    IF Len(ss) = 0 THEN ""
    ELSE IF Len(ss) = 1 THEN ss[1]
    ELSE ss[1] \o sep \o Join(Tail(ss), sep)

RECURSIVE Concat(_)
Concat(ss) == IF Len(ss) = 0 THEN "" ELSE ss[1] \o Concat(Tail(ss))

\* Array.prototype.slice(from0, to0) with 0 <= from0
Slice(xs, from0, to0) ==
    SubSeq(xs, from0 + 1, IF to0 < Len(xs) THEN to0 ELSE Len(xs))

\* Array.prototype.map
Map(xs, F(_)) == [i \in 1..Len(xs) |-> F(xs[i])]

\* Array.prototype.filter
Filter(xs, P(_)) == SelectSeq(xs, P)

(***************************************************************************)
(* geminiService: the rate-limit classifier.                               *)
(* An error value is falsy (null, undefined, '', 0) or carries a status    *)
(* field (absent, a number or a string), a message and its toString().     *)
(***************************************************************************)
NoStatus == [type |-> "undefined", value |-> 0]
NumStatus(n) == [type |-> "number", value |-> n]
StrStatus(n) == [type |-> "string", value |-> n]

FalsyError == [falsy |-> TRUE, status |-> NoStatus, message |-> "", str |-> ""]
\* new Error(message), optionally with a status field as the SDK's ApiError has
ErrorObj(status, message) ==
    [falsy |-> FALSE, status |-> status, message |-> message,
     str |-> IF message = "" THEN "Error" ELSE "Error: " \o message]
\* a thrown value that is not an Error: a non-empty string, or a plain
\* object with a status field ("[object Object]")
ThrownValue(status, str) ==
    [falsy |-> FALSE, status |-> status, message |-> "", str |-> str]

isRateLimitError_NoQuota(error) ==
    IF error.falsy THEN FALSE
    ELSE LET errString == error.str
         IN  \/ (error.status.type = "number" /\ error.status.value = 429)
             \/ Includes(errString, "429")
             \/ Includes(errString, "RESOURCE_EXHAUSTED")

isRateLimitError(error) ==
    IF error.falsy THEN FALSE
    ELSE LET errString == error.str
         IN  \/ (error.status.type = "number" /\ error.status.value = 429)
             \/ Includes(errString, "429")
             \/ Includes(errString, "RESOURCE_EXHAUSTED")
             \/ Includes(errString, "quota")

(***************************************************************************)
(* JavaScript numbers, as far as the importer needs them: NaN, +-Infinity  *)
(* or a decimal (-1)^neg * mant / 10^scale with the least scale >= 0.      *)
(***************************************************************************)
NaN == [kind |-> "nan", neg |-> FALSE, mant |-> 0, scale |-> 0]
Infinity(neg) == [kind |-> "inf", neg |-> neg, mant |-> 0, scale |-> 0]

RECURSIVE Pow10(_)
Pow10(n) == IF n <= 0 THEN 1 ELSE 10 * Pow10(n - 1)

RECURSIVE Canonical(_, _, _)
Canonical(neg, mant, scale) ==
    IF scale < 0 THEN Canonical(neg, mant * 10, scale + 1)
    ELSE IF scale > 0 /\ mant % 10 = 0 THEN Canonical(neg, mant \div 10, scale - 1)
    ELSE [kind |-> "num", neg |-> neg, mant |-> mant, scale |-> scale]

\* the number literal mant / 10^scale
Dec(mant, scale) == Canonical(FALSE, mant, scale)

Digits == {"0", "1", "2", "3", "4", "5", "6", "7", "8", "9"}
DigitVal == [c \in Digits |->
    CASE c = "0" -> 0 [] c = "1" -> 1 [] c = "2" -> 2 [] c = "3" -> 3 [] c = "4" -> 4
      [] c = "5" -> 5 [] c = "6" -> 6 [] c = "7" -> 7 [] c = "8" -> 8 [] c = "9" -> 9]

RECURSIVE DigitsLen(_, _)
\* how many decimal digits s has from position i on
DigitsLen(s, i) ==
    IF i <= Len(s) /\ CharAt(s, i) \in Digits THEN 1 + DigitsLen(s, i + 1) ELSE 0

RECURSIVE DigitsVal(_, _, _)
\* the value of the n digits of s that end at position i + n - 1
DigitsVal(s, i, n) ==
    IF n = 0 THEN 0
    ELSE DigitsVal(s, i, n - 1) * 10 + DigitVal[CharAt(s, i + n - 1)]

\* x < 0
IsNegative(x) == x.kind # "nan" /\ x.neg /\ (x.kind = "inf" \/ x.mant > 0)

\* Math.abs
MathAbs(x) == [x EXCEPT !.neg = FALSE]

\* isNaN
isNaN(x) == x.kind = "nan"

RECURSIVE SatVal(_, _, _)
\* the value of the n digits of s from position i on, or 99999 if that is less
SatVal(s, i, n) ==
    IF n = 0 THEN 0
    ELSE LET v == SatVal(s, i, n - 1)
         IN  IF v >= 10000 THEN 99999 ELSE v * 10 + DigitVal[CharAt(s, i + n - 1)]

RECURSIVE StripZerosEnd(_)
StripZerosEnd(ds) ==
    IF Len(ds) > 0 /\ CharAt(ds, Len(ds)) = "0"
    THEN StripZerosEnd(SubSeq(ds, 1, Len(ds) - 1)) ELSE ds

\* the first nine digits of the decimal expansion of mant > 0
Lead9(mant) ==
    LET k == Len(ToString(mant))
    IN  IF k > 9 THEN mant \div 10 ELSE mant * Pow10(9 - k)

RECURSIVE Zeros(_)
Zeros(n) == IF n <= 0 THEN "" ELSE "0" \o Zeros(n - 1)

\* n * 2^1075 * 10^pad by long multiplication in columns of four digits,
\* n = n[1] * 10^8 + n[2] * 10^4 + n[3]: the sum of column j (counted from
\* the right, from 0) before the carries
TimesTwoTo1075(n, pad, j) ==
    LET two == "4048045066146212367049906934378346140991132995282842367138027160" \o
               "5486067913599069378392076740287424899037415572863362382277961747" \o
               "4771586953734026799881477019843034848553132722728933815484186432" \o
               "6824795353569454901371240149668493853972362067112983191126816201" \o
               "1302471753910466682923046100506437265501729201252661541548218698" \o
               "9568"
        ds  == two \o Zeros(pad)
        D(i) == IF i < 0 \/ 4 * i >= Len(ds) THEN 0
                ELSE IF 4 * i + 4 > Len(ds) THEN DigitsVal(ds, 1, Len(ds) - 4 * i)
                ELSE DigitsVal(ds, Len(ds) - 4 * i - 3, 4)
    IN  D(j) * n[3] + D(j - 1) * n[2] + D(j - 2) * n[1]

RECURSIVE CarryOut(_, _, _, _, _)
\* what the columns lo .. hi - 1 of that product carry into column hi when c
\* is carried into column lo; the columns are halved rather than taken one
\* after the other, and the carry of the lower half is a value before the
\* upper half is entered
CarryOut(n, pad, lo, hi, c) ==
    IF hi <= lo THEN c
    ELSE IF hi = lo + 1 THEN (TimesTwoTo1075(n, pad, lo) + c) \div 10000
    ELSE CHOOSE out \in {CarryOut(n, pad, (lo + hi) \div 2, hi, half) :
                             half \in {CarryOut(n, pad, lo, (lo + hi) \div 2, c)}} : TRUE

\* the double nearest to (-1)^neg * mant / 10^scale, as the shortest decimal
\* that denotes it, for a numeral of at most ten digits whose last digit has
\* a weight below 1e-323, mant > 0 and scale >= 324.  The double is
\* subnormal, k * 2^-1074 with k = round(mant * 2^1074 / 10^scale) (no such
\* numeral lies halfway); k = 0 is zero.  A decimal m / 10^q denotes that
\* double iff 2k - 1 < m * 2^1075 / 10^q < 2k + 1; with q < 324 at most one m
\* does, a neighbour of the numeral cut at q digits that is less than 5e-324
\* away from it, and the least such q gives the shortest decimal; if there
\* is none it is the m / 10^324 nearest to the double, the least m with
\* 4k < (2m + 1) * 2^1075 / 10^324.
\* Floor(n, q) is floor(n * 2^1075 / 10^q) for a quotient below 10^12: of the
\* columns of the product, col are below 10^q and three hold the quotient.
Subnormal(neg, mant, scale) ==
    LET Floor(n, q) ==
            LET pad == (4 - (q % 4)) % 4
                col == (q + pad) \div 4
            IN  IF col > 84 THEN 0
                ELSE CarryOut(n, pad, 0, col, 0)
                     + TimesTwoTo1075(n, pad, col)
                     + 10000 * (TimesTwoTo1075(n, pad, col + 1)
                                + 10000 * TimesTwoTo1075(n, pad, col + 2))
        Groups(n, twice, one) ==
            <<twice * (n \div 100000000), twice * ((n \div 10000) % 10000),
              twice * (n % 10000) + one>>
        Near(q) ==
            LET d == Pow10(scale - q)
            IN  {m \in {mant \div d, mant \div d + 1} :
                    /\ m > 0
                    /\ (IF m = mant \div d THEN mant % d ELSE d - (mant % d))
                           < 5 * Pow10(scale - 324)}
        Short(k) == {qm \in UNION {{<<q, m>> : m \in Near(q)} : q \in (scale - 9)..323} :
                        Floor(Groups(qm[2], 1, 0), qm[1]) \in {2 * k - 1, 2 * k}}
        Nearest(k) == {m \in (mant \div Pow10(scale - 324) - 3)
                                ..(mant \div Pow10(scale - 324) + 3) :
                          m >= 0 /\ 4 * k <= Floor(Groups(m, 2, 1), 324)}
        Least(S) == CHOOSE x \in S : \A y \in S : x[1] <= y[1]
        Shortest(k) ==
            IF k = 0 THEN Canonical(neg, 0, 0)
            ELSE CHOOSE x \in {IF short # {}
                               THEN Canonical(neg, Least(short)[2], Least(short)[1])
                               ELSE CHOOSE y \in {Canonical(neg, Least(ms)[1], 324) :
                                                   ms \in {{<<m>> : m \in Nearest(k)}}} : TRUE :
                               short \in {Short(k)}} : TRUE
    IN  CHOOSE x \in {Shortest(k) :
                      k \in {(Floor(Groups(mant, 1, 0), scale) + 1) \div 2}} : TRUE

\* the double nearest to (-1)^neg * mant / 10^scale, mant > 0, as the
\* shortest decimal that denotes it (what Number::toString prints).  lead is
\* the decimal exponent of the first digit.  Above 1.7976931348623158e308 the
\* double is Infinity.  A decimal of at most ten digits whose last digit has
\* a weight of 1e-323 or more is the shortest decimal of its double.
ToDouble(neg, mant, scale) ==
    LET lead == Len(ToString(mant)) - 1 - scale
    IN  IF \/ lead > 308
           \/ lead = 308 /\ (Lead9(mant) >= 179769314 \/ mant >= 1797693135)
        THEN Infinity(neg)
        ELSE IF scale < 324 THEN Canonical(neg, mant, scale)
        ELSE Subnormal(neg, mant, scale)

\* the global parseFloat: leading white space, then the longest prefix that
\* is a StrDecimalLiteral
parseFloat(str) ==
    LET s    == TrimStart(str)
        sgn  == IF Len(s) > 0 /\ CharAt(s, 1) \in {"+", "-"} THEN 1 ELSE 0
        neg  == sgn = 1 /\ CharAt(s, 1) = "-"
        p    == sgn + 1
        il   == DigitsLen(s, p)
        dot  == p + il <= Len(s) /\ CharAt(s, p + il) = "."
        fl   == IF dot THEN DigitsLen(s, p + il + 1) ELSE 0
        q    == p + il + (IF dot THEN 1 + fl ELSE 0)
        isE  == q <= Len(s) /\ CharAt(s, q) \in {"e", "E"}
        es   == IF isE /\ q + 1 <= Len(s) /\ CharAt(s, q + 1) \in {"+", "-"} THEN 1 ELSE 0
        el   == IF isE THEN DigitsLen(s, q + 1 + es) ELSE 0
        eneg == es = 1 /\ CharAt(s, q + 1) = "-"
        ev   == SatVal(s, q + 1 + es, el)
        e    == IF eneg THEN 0 - ev ELSE ev
        frac == StripZerosEnd(SubSeq(s, p + il + 1, p + il + fl))
        ds   == SubSeq(s, p, p + il - 1) \o frac
        mant == DigitsVal(ds, 1, Len(ds))
    IN  IF StartsWithAt(s, "Infinity", p) THEN Infinity(neg)
        ELSE IF il + fl = 0 THEN NaN
        ELSE IF mant = 0 THEN Canonical(neg, 0, 0)
        ELSE ToDouble(neg, mant, Len(frac) - e)

\* Number::toString(x, 10), and what a template literal makes of null.  With
\* k digits and the decimal point after the n-th: an integer, digits around
\* the point, "0." and zeros for -6 < n <= 0, exponent notation below that
NumToString(x) ==
    IF x.kind = "null" THEN "null"
    ELSE IF x.kind = "nan" THEN "NaN"
    ELSE IF x.kind = "inf" THEN (IF x.neg THEN "-Infinity" ELSE "Infinity")
    ELSE IF x.mant = 0 THEN "0"
    ELSE LET ds == ToString(x.mant)
             k  == Len(ds)
             n  == k - x.scale
         IN  (IF x.neg THEN "-" ELSE "")
             \o (IF x.scale = 0 THEN ds
                 ELSE IF n > 0 THEN SubSeq(ds, 1, n) \o "." \o SubSeq(ds, n + 1, k)
                 ELSE IF n > 0 - 6 THEN "0." \o Zeros(0 - n) \o ds
                 ELSE SubSeq(ds, 1, 1)
                      \o (IF k > 1 THEN "." \o SubSeq(ds, 2, k) ELSE "")
                      \o "e-" \o ToString(1 - n))

(***************************************************************************)
(* types: Transaction, CATEGORIES; App: INITIAL_DATA.                      *)
(* isAnomaly is optional: a record has the field or has not.               *)
(***************************************************************************)
INCOME == "INCOME"
EXPENSE == "EXPENSE"

CATEGORIES == <<"Food & Dining", "Transportation", "Housing", "Utilities",
                "Entertainment", "Shopping", "Healthcare", "Income", "Uncategorized">>

Transaction(id, date, description, amount, type, category) ==
    [id |-> id, date |-> date, description |-> description, amount |-> amount,
     type |-> type, category |-> category]

\* { ...t, isAnomaly: b }
WithAnomaly(t, b) ==
    [f \in DOMAIN t \cup {"isAnomaly"} |-> IF f = "isAnomaly" THEN b ELSE t[f]]

HasAnomalyField(t) == "isAnomaly" \in DOMAIN t

INITIAL_DATA == <<
    Transaction("1", "2023-11-01", "Salary Deposit", Dec(4500, 0), INCOME, "Income"),
    Transaction("2", "2023-11-03", "Whole Foods Market", Dec(12450, 2), EXPENSE, "Food & Dining"),
    Transaction("3", "2023-11-05", "Uber Trip", Dec(2400, 2), EXPENSE, "Transportation"),
    Transaction("4", "2023-11-05", "Netflix Subscription", Dec(1599, 2), EXPENSE, "Entertainment"),
    Transaction("5", "2023-11-07", "Electric Bill", Dec(14520, 2), EXPENSE, "Utilities"),
    WithAnomaly(Transaction("6", "2023-11-10", "Luxury Bag Store", Dec(250000, 2), EXPENSE, "Shopping"), TRUE),
    Transaction("7", "2023-11-12", "Coffee Shop", Dec(650, 2), EXPENSE, "Food & Dining"),
    Transaction("8", "2023-11-15", "Rent Payment", Dec(180000, 2), EXPENSE, "Housing"),
    Transaction("9", "2023-11-16", "Unknown Charge 9928", Dec(4999, 2), EXPENSE, "Uncategorized") >>

(***************************************************************************)
(* TransactionList.handleFileUpload: the CSV importer.                     *)
(***************************************************************************)
\* new Date(ms).toISOString().split('T')[0], for a clock within the first day
\* of the epoch, where the model's clock runs
ISODate(ms) == "1970-01-01"

\* a || b on strings
OrElse(a, b) == IF a = "" THEN b ELSE a

\* the body of lines.slice(1).forEach((line, idx) => ...): what one line pushes
ParseLine_KeepSign(line, idx, t) ==
    LET parts == Split(line, ",")
    IN  IF Len(parts) >= 3
        THEN LET amount == parseFloat(parts[3])
             IN  IF ~isNaN(amount)
                 THEN << Transaction(ToString(t) \o ToString(idx),
                                     OrElse(Trim(parts[1]), ISODate(t)),
                                     OrElse(Trim(parts[2]), "Unknown"),
                                     amount,
                                     IF IsNegative(amount) THEN EXPENSE ELSE INCOME,
                                     "Uncategorized") >>
                 ELSE <<>>
        ELSE <<>>

ParseLine_KeepNaN(line, idx, t) ==
    LET parts == Split(line, ",")
    IN  IF Len(parts) >= 3
        THEN LET amount == parseFloat(parts[3])
             IN  << Transaction(ToString(t) \o ToString(idx),
                                OrElse(Trim(parts[1]), ISODate(t)),
                                OrElse(Trim(parts[2]), "Unknown"),
                                MathAbs(amount),
                                IF IsNegative(amount) THEN EXPENSE ELSE INCOME,
                                "Uncategorized") >>
        ELSE <<>>

ParseLine(line, idx, t) ==
    LET parts == Split(line, ",")
    IN  IF Len(parts) >= 3
        THEN LET amount == parseFloat(parts[3])
             IN  IF ~isNaN(amount)
                 THEN << Transaction(ToString(t) \o ToString(idx),
                                     OrElse(Trim(parts[1]), ISODate(t)),
                                     OrElse(Trim(parts[2]), "Unknown"),
                                     MathAbs(amount),
                                     IF IsNegative(amount) THEN EXPENSE ELSE INCOME,
                                     "Uncategorized") >>
                 ELSE <<>>
        ELSE <<>>

RECURSIVE ParseLines(_, _, _)
\* lines.slice(1).forEach from index idx on
ParseLines(rows, idx, t) ==
    IF idx >= Len(rows) THEN <<>>
    ELSE ParseLine(rows[idx + 1], idx, t) \o ParseLines(rows, idx + 1, t)

\* reader.onload: the transactions the text adds
newTransactions(text, t) ==
    LET lines == Split(text, "\n")
    IN  ParseLines(Slice(lines, 1, Len(lines)), 0, t)

(***************************************************************************)
(* App: the persisted blob.  A JSON text is modelled by the value it       *)
(* denotes, which is what JSON.parse gives back: JSON.stringify writes a   *)
(* non-finite number as null and leaves out an absent isAnomaly.           *)
(***************************************************************************)
JSONNull == [kind |-> "null", neg |-> FALSE, mant |-> 0, scale |-> 0]

\* JSON.stringify of a number, read back: a number that is not finite is
\* written as null, minus zero as 0
JSONNumber(x) ==
    IF x.kind # "num" THEN JSONNull
    ELSE IF x.mant = 0 THEN [x EXCEPT !.neg = FALSE]
    ELSE x

JSONStringify_Empty(txs) == <<>>

JSONStringify(txs) == Map(txs, LAMBDA t : [t EXCEPT !.amount = JSONNumber(t.amount)])

\* localStorage.getItem: null, or the text stored under the key
NoItem == [kind |-> "absent"]
JsonItem(value) == [kind |-> "json", value |-> value]

\* JSON.parse of a text, which the model holds as the value it denotes: the
\* list it denotes, a JSON null being the null of JavaScript
JSONParse(value) == [i \in 1..Len(value) |-> value[i]]

\* the initializer of the transactions state
Loaded(saved) == IF saved.kind = "absent" THEN INITIAL_DATA ELSE JSONParse(saved.value)

(***************************************************************************)
(* geminiService: categorizeTransactions and getSpendingInsights.          *)
(* The remote call settles with an outcome: it resolves with a response    *)
(* text or rejects with an error.  A response text is empty, or JSON of a  *)
(* value, or text JSON.parse rejects with the engine's SyntaxError.        *)
(***************************************************************************)
EmptyText == [kind |-> "empty"]
JsonText(value) == [kind |-> "json", value |-> value]
MalformedText(error) == [kind |-> "malformed", error |-> error]
PlainText(s) == [kind |-> "plain", value |-> s]

Resolved(text) == [settled |-> "resolved", text |-> text]
Rejected(error) == [settled |-> "rejected", error |-> error]

Returned(value) == [threw |-> FALSE, value |-> value]
Threw(error) == [threw |-> TRUE, error |-> error]

RATE_LIMIT == ErrorObj(NoStatus, "RATE_LIMIT")

\* the catch block of categorizeTransactions
categorizeCatch_Rethrow(error) == Threw(RATE_LIMIT)

categorizeCatch(error) ==
    IF isRateLimitError(error) THEN Threw(RATE_LIMIT) ELSE Returned(<<>>)

\* categorizeTransactions, from the point where generateContent settles
categorizeTransactions(outcome) ==
    IF outcome.settled = "rejected" THEN categorizeCatch(outcome.error)
    ELSE LET jsonText == outcome.text
         IN  IF jsonText.kind = "empty" THEN Returned(<<>>)
             ELSE IF jsonText.kind = "malformed" THEN categorizeCatch(jsonText.error)
             ELSE Returned(jsonText.value)

\* transactions.map(t => ({ id, description, amount, type })) of the prompt
CategorizePrompt(txs) ==
    Map(txs, LAMBDA t : [id |-> t.id, description |-> t.description,
                         amount |-> t.amount, type |-> t.type])

SLICE_LIMIT == 50

InsightLine(t) ==
    t.date \o ": " \o t.description \o " ($" \o NumToString(t.amount) \o ") - " \o t.category

\* transactions.slice(0, 50).map(...).join('\n')
InsightSummary_All(txs) == Join(Map(txs, InsightLine), "\n")

InsightSummary(txs) == Join(Map(Slice(txs, 0, SLICE_LIMIT), InsightLine), "\n")

NO_INSIGHTS == "No insights available at this time."
INSIGHTS_FALLBACK == "Could not generate insights at this time. Please try again later."

\* getSpendingInsights, from the point where generateContent settles
getSpendingInsights_Raise(outcome) ==
    IF outcome.settled = "rejected" THEN Threw(RATE_LIMIT)
    ELSE Returned(IF outcome.text.kind = "empty" THEN NO_INSIGHTS ELSE outcome.text.value)

getSpendingInsights(outcome) ==
    IF outcome.settled = "rejected"
    THEN IF isRateLimitError(outcome.error) THEN Threw(RATE_LIMIT)
         ELSE Returned(INSIGHTS_FALLBACK)
    ELSE Returned(IF outcome.text.kind = "empty" THEN NO_INSIGHTS ELSE outcome.text.value)

\* e.message === 'RATE_LIMIT' || isRateLimitError(e), of both callers
IsRateLimitFailure(e) == e.message = "RATE_LIMIT" \/ isRateLimitError(e)

(***************************************************************************)
(* The application state and its initial value.                            *)
(***************************************************************************)
DASHBOARD == "DASHBOARD"
TRANSACTIONS == "TRANSACTIONS"
CHAT == "CHAT"
\* the views the Sidebar's menuItems offer
MenuViews == {DASHBOARD, TRANSACTIONS, CHAT}

QUOTA_EXCEEDED == "Quota exceeded. Please wait a minute."
CATEGORIZE_FAILED == "Failed to categorize. Try again later."
SYSTEM_BUSY == "System is currently busy. Please wait a minute and try again."
INSIGHTS_UNABLE == "Unable to generate insights at the moment. Please try again later."
GREETING == "Hello! I'm your Gemini FinBot. Ask me anything about budgeting strategies, saving tips, or financial concepts."
CHAT_ERROR == "Sorry, I encountered an error. Please try again."
\* the text starts with a warning sign, the characters U+26A0 and U+FE0F; a
\* string of this module cannot hold U+FE0F, so the two stand here as their
\* JavaScript escape sequences, written out
CHAT_USAGE_LIMIT ==
    "\\u26A0\\uFE0F usage limits exceeded. Please wait a minute before trying again."

ChatMessage(id, role, text, timestamp) ==
    [id |-> id, role |-> role, text |-> text, timestamp |-> timestamp]

storeVars == <<transactions, storage, persistDue>>
listVars  == <<isAutoCategorizing, errorMsg>>
dashVars  == <<insight, loadingInsight, insightError, isRateLimit>>
chatVars  == <<messages, inputValue, isStreaming, chatUpdates, chatSessionRef, sessionsCreated>>
callVars  == <<fileReads, catCalls, insCalls, chatCalls>>
fnVars    == <<input, output>>

\* App() mounted on the stored list txs, showing the Dashboard
AppInit(txs) ==
    /\ now = ClockStart
    /\ currentView = DASHBOARD
    /\ transactions = txs
    /\ storage = JSONStringify(txs)
    /\ persistDue = FALSE
    /\ fileReads = <<>>
    /\ isAutoCategorizing = FALSE
    /\ errorMsg = Null
    /\ catCalls = <<>>
    /\ insight = Null
    /\ loadingInsight = FALSE
    /\ insightError = FALSE
    /\ isRateLimit = FALSE
    /\ insCalls = <<>>
    /\ messages = <<>>
    /\ inputValue = ""
    /\ isStreaming = FALSE
    /\ chatUpdates = <<>>
    /\ chatSessionRef = 0
    /\ chatCalls = <<>>
    /\ sessionsCreated = 0
    /\ event = [op |-> "init"]

Init ==
    /\ AppInit(INITIAL_DATA)
    /\ input = Unset
    /\ output = Unset

\* React runs the effects of a commit before it renders again, so a handler's
\* state changes are rendered with the effects of the commit before run
EffectsFlushed == ~persistDue

\* time passes
Tick ==
    /\ now < ClockStart + MaxTicks
    /\ now' = now + 1
    /\ event' = [op |-> "tick"]
    /\ UNCHANGED <<currentView, storeVars, listVars, dashVars, chatVars, callVars, fnVars>>

Orphaned_Cancel(calls) == <<>>

\* a call in flight whose component has been unmounted
Orphaned(calls) == [i \in 1..Len(calls) |-> [calls[i] EXCEPT !.mounted = FALSE]]

RemoveAt(xs, i) == SubSeq(xs, 1, i - 1) \o SubSeq(xs, i + 1, Len(xs))

\* Sidebar onChangeView -> setCurrentView(view); renderView unmounts the
\* component of the old view and mounts the one of the new view.  A handler
\* of the unmounted component that is still awaiting keeps running, but React
\* drops the state updates of an unmounted component: only a categorize call
\* can still change the application (through App's setTransactions), so the
\* insight and chat calls in flight are followed no further.
setCurrentView(view) ==
    /\ EffectsFlushed
    /\ view # currentView
    /\ view = CHAT => sessionsCreated < MaxSessions
    /\ currentView' = view
    /\ isAutoCategorizing' = FALSE
    /\ errorMsg' = Null
    /\ catCalls' = IF currentView = TRANSACTIONS THEN Orphaned(catCalls) ELSE catCalls
    /\ insight' = Null
    /\ loadingInsight' = FALSE
    /\ insightError' = FALSE
    /\ isRateLimit' = FALSE
    /\ insCalls' = <<>>
    /\ messages' = IF view = CHAT
                   THEN << ChatMessage("1", "model", GREETING, now) >> ELSE <<>>
    /\ inputValue' = ""
    /\ isStreaming' = FALSE
    /\ chatUpdates' = <<>>
    /\ chatCalls' = <<>>
       \* ChatBot's useEffect: createChatSession() into the fresh ref
    /\ sessionsCreated' = IF view = CHAT THEN sessionsCreated + 1 ELSE sessionsCreated
    /\ chatSessionRef' = IF view = CHAT THEN sessionsCreated + 1 ELSE 0
    /\ event' = [op |-> "setCurrentView", view |-> view]
    /\ UNCHANGED <<now, storeVars, fileReads, fnVars>>

(***************************************************************************)
(* App: setTransactions, and the effect on [transactions] that persists    *)
(* the list once the change is committed.                                  *)
(***************************************************************************)
setTransactions(next) ==
    /\ transactions' = next
    /\ persistDue' = TRUE
    /\ UNCHANGED storage

\* useEffect(() => localStorage.setItem(..., JSON.stringify(transactions)))
persistTransactions ==
    /\ persistDue
    /\ storage' = JSONStringify(transactions)
    /\ persistDue' = FALSE
    /\ event' = [op |-> "useEffect", after |-> event]
    /\ UNCHANGED <<now, currentView, transactions, listVars, dashVars, chatVars,
                   callVars, fnVars>>

(***************************************************************************)
(* TransactionList                                                         *)
(***************************************************************************)
\* handleFileUpload: a file of the given text is chosen and handed to a
\* FileReader
handleFileUpload(text) ==
    /\ EffectsFlushed
    /\ currentView = TRANSACTIONS
    /\ Len(fileReads) < MaxReads
    /\ fileReads' = Append(fileReads, [text |-> text])
    /\ event' = [op |-> "handleFileUpload", text |-> text]
    /\ UNCHANGED <<now, currentView, storeVars, listVars, dashVars, chatVars,
                   catCalls, insCalls, chatCalls, fnVars>>

\* reader.onload of read i: the file has been read, whatever the view is by
\* then; ids and the default date are taken from the clock at this moment
onload(i) ==
    LET text == fileReads[i].text
    IN  /\ EffectsFlushed
        /\ fileReads' = RemoveAt(fileReads, i)
        /\ setTransactions(transactions \o newTransactions(text, now))
        /\ event' = [op |-> "onload", text |-> text]
        /\ UNCHANGED <<now, currentView, listVars, dashVars, chatVars,
                       catCalls, insCalls, chatCalls, fnVars>>

\* handleCategoryChange
CategoryChanged(prev, id, newCategory) ==
    Map(prev, LAMBDA t : IF t.id = id THEN [t EXCEPT !.category = newCategory] ELSE t)

handleCategoryChange(id, newCategory) ==
    /\ EffectsFlushed
    /\ currentView = TRANSACTIONS
    /\ setTransactions(CategoryChanged(transactions, id, newCategory))
    /\ event' = [op |-> "handleCategoryChange", id |-> id, category |-> newCategory]
    /\ UNCHANGED <<now, currentView, listVars, dashVars, chatVars, callVars, fnVars>>

IsUncategorized(t) == t.category = "Uncategorized" \/ t.category = ""

RECURSIVE Find(_, _)
\* results.find(r => r.id === id), as <<r>> or <<>>
Find(results, id) ==
    IF Len(results) = 0 THEN <<>>
    ELSE IF results[1].id = id THEN <<results[1]>>
    ELSE Find(Tail(results), id)

\* the updater of runAutoCategorization
Merged_OnlyMatched(prev, results) ==
    Map(SelectSeq(prev, LAMBDA t : Len(Find(results, t.id)) > 0), LAMBDA t :
        LET match == Find(results, t.id)
        IN  [WithAnomaly(t, match[1].isAnomaly) EXCEPT !.category = match[1].category])

Merged_OnlyUncategorized(prev, results) ==
    Map(prev, LAMBDA t :
        LET match == Find(results, t.id)
        IN  IF Len(match) > 0 /\ IsUncategorized(t)
            THEN [WithAnomaly(t, match[1].isAnomaly) EXCEPT !.category = match[1].category]
            ELSE t)

Merged_KeepAnomaly(prev, results) ==
    Map(prev, LAMBDA t :
        LET match == Find(results, t.id)
        IN  IF Len(match) > 0 THEN [t EXCEPT !.category = match[1].category] ELSE t)

Merged_ByPosition(prev, results) ==
    [i \in 1..Len(prev) |->
        IF i <= Len(results)
        THEN [WithAnomaly(prev[i], results[i].isAnomaly) EXCEPT !.category = results[i].category]
        ELSE prev[i]]

Merged(prev, results) ==
    Map(prev, LAMBDA t :
        LET match == Find(results, t.id)
        IN  IF Len(match) > 0
            THEN [WithAnomaly(t, match[1].isAnomaly) EXCEPT !.category = match[1].category]
            ELSE t)

\* runAutoCategorization up to the await
runAutoCategorization ==
    LET uncategorized == Filter(transactions, IsUncategorized)
    IN  /\ EffectsFlushed
        /\ currentView = TRANSACTIONS
        /\ ~isAutoCategorizing
        /\ Len(uncategorized) # 0
        /\ isAutoCategorizing' = TRUE
        /\ errorMsg' = Null
        /\ catCalls' = Append(catCalls, [prompt |-> CategorizePrompt(uncategorized),
                                         mounted |-> TRUE])
        /\ event' = [op |-> "runAutoCategorization"]
        /\ UNCHANGED <<now, currentView, storeVars, dashVars, chatVars,
                       fileReads, insCalls, chatCalls, fnVars>>

\* runAutoCategorization from the await on: call i settles with outcome
CategorizeSettled(i, outcome) ==
  \E r \in {categorizeTransactions(outcome)} :
    LET call == catCalls[i]
    IN  /\ EffectsFlushed
        /\ catCalls' = RemoveAt(catCalls, i)
        /\ IF r.threw
           THEN UNCHANGED storeVars
           ELSE setTransactions(Merged(transactions, r.value))
        /\ errorMsg' = IF call.mounted /\ r.threw
                       THEN (IF IsRateLimitFailure(r.error)
                             THEN QUOTA_EXCEEDED ELSE CATEGORIZE_FAILED)
                       ELSE errorMsg
        /\ isAutoCategorizing' = IF call.mounted THEN FALSE ELSE isAutoCategorizing
        /\ event' = [op |-> "categorizeSettled", outcome |-> outcome,
                     result |-> r, mounted |-> call.mounted, sent |-> call.prompt]
        /\ UNCHANGED <<now, currentView, dashVars, chatVars, fileReads, insCalls,
                       chatCalls, fnVars>>

(***************************************************************************)
(* Dashboard                                                               *)
(***************************************************************************)
\* handleGenerateInsights up to the await
handleGenerateInsights ==
    /\ EffectsFlushed
    /\ currentView = DASHBOARD
    /\ ~loadingInsight
    /\ loadingInsight' = TRUE
    /\ insightError' = FALSE
    /\ isRateLimit' = FALSE
    /\ insight' = Null
    /\ insCalls' = Append(insCalls, [summary |-> InsightSummary(transactions)])
    /\ event' = [op |-> "handleGenerateInsights"]
    /\ UNCHANGED <<now, currentView, storeVars, listVars, chatVars,
                   fileReads, catCalls, chatCalls, fnVars>>

\* handleGenerateInsights from the await on: call i settles with outcome
InsightsSettled(i, outcome) ==
  \E r \in {getSpendingInsights(outcome)} :
    LET rl == r.threw /\ IsRateLimitFailure(r.error)
    IN  /\ EffectsFlushed
        /\ insCalls' = RemoveAt(insCalls, i)
        /\ insight' = IF ~r.threw THEN r.value
                      ELSE IF rl THEN SYSTEM_BUSY ELSE INSIGHTS_UNABLE
        /\ insightError' = IF r.threw THEN TRUE ELSE insightError
        /\ isRateLimit' = IF rl THEN TRUE ELSE isRateLimit
        /\ loadingInsight' = FALSE
        /\ event' = [op |-> "insightsSettled", outcome |-> outcome, result |-> r]
        /\ UNCHANGED <<now, currentView, storeVars, listVars, chatVars,
                       fileReads, catCalls, chatCalls, fnVars>>

(***************************************************************************)
(* ChatBot                                                                 *)
(***************************************************************************)
\* the textarea's onChange; the textarea is disabled while streaming
setInputValue(value) ==
    /\ EffectsFlushed
    /\ currentView = CHAT
    /\ ~isStreaming
    /\ value # inputValue
    /\ inputValue' = value
    /\ event' = [op |-> "setInputValue"]
    /\ UNCHANGED <<now, currentView, storeVars, listVars, dashVars, messages,
                   isStreaming, chatUpdates, chatSessionRef, sessionsCreated,
                   callVars, fnVars>>

\* handleSend up to the await of sendMessageStream
handleSend ==
    LET userMsg  == ChatMessage(ToString(now), "user", inputValue, now)
        botMsgId == ToString(now + 1)
    IN  /\ EffectsFlushed
        /\ currentView = CHAT
        /\ Trim(inputValue) # ""
        /\ ~isStreaming
        /\ Len(messages) + 2 <= MaxMessages
        /\ messages' = messages \o << userMsg, ChatMessage(botMsgId, "model", "", now) >>
        /\ inputValue' = ""
        /\ isStreaming' = TRUE
        /\ chatCalls' = Append(chatCalls,
                               [botMsgId |-> botMsgId, message |-> userMsg.text,
                                session |-> chatSessionRef, fullText |-> "",
                                yielded |-> <<>>])
        /\ event' = [op |-> "handleSend", session |-> chatSessionRef]
        /\ UNCHANGED <<now, currentView, storeVars, listVars, dashVars, chatUpdates,
                       chatSessionRef, sessionsCreated, fileReads, catCalls, insCalls,
                       fnVars>>

\* the updater of the for-await body, run with the value fullText has then
ChunkApplied(prev, botMsgId, fullText) ==
    Map(prev, LAMBDA msg : IF msg.id = botMsgId THEN [msg EXCEPT !.text = fullText] ELSE msg)

\* fullText is a variable of the handler and the updaters of the for-await
\* body read it when React runs them, not when they are queued: the updaters
\* of the message that are waiting all see the text as it is now
Reread(updates, botMsgId, fullText) ==
    [k \in 1..Len(updates) |->
        IF updates[k].op = "chunk" /\ updates[k].botMsgId = botMsgId
        THEN [updates[k] EXCEPT !.fullText = fullText]
        ELSE updates[k]]

\* one iteration of the for-await loop: the stream of call i yields a chunk
\* with text textChunk ('' for a chunk without text).  The loop runs after an
\* await, outside React's event handlers, so setMessages only queues the
\* updater: React runs it at its next render
StreamChunk(i, textChunk) ==
    LET call     == chatCalls[i]
        fullText == call.fullText \o textChunk
    IN  /\ EffectsFlushed
        /\ Len(call.yielded) < MaxChunks
        /\ chatCalls' = [chatCalls EXCEPT ![i] =
                            [call EXCEPT !.fullText = fullText,
                                         !.yielded = Append(call.yielded, textChunk)]]
        /\ chatUpdates' = Append(Reread(chatUpdates, call.botMsgId, fullText),
                                 [op |-> "chunk", botMsgId |-> call.botMsgId,
                                  fullText |-> fullText])
        /\ event' = [op |-> "streamChunk"]
        /\ UNCHANGED <<now, currentView, storeVars, listVars, dashVars, messages,
                       inputValue, isStreaming, chatSessionRef, sessionsCreated,
                       fileReads, catCalls, insCalls, fnVars>>

StreamEnd_NoFinally(i) ==
    LET call == chatCalls[i]
    IN  /\ EffectsFlushed
        /\ chatCalls' = RemoveAt(chatCalls, i)
        /\ event' = [op |-> "streamEnd", yielded |-> call.yielded,
                     botMsgId |-> call.botMsgId]
        /\ UNCHANGED <<now, currentView, storeVars, listVars, dashVars, messages,
                       inputValue, isStreaming, chatUpdates, chatSessionRef,
                       sessionsCreated, fileReads, catCalls, insCalls, fnVars>>

\* the stream of call i ends: the finally block queues setIsStreaming(false)
\* (each settling update is queued with the call it settles, for the record)
StreamEnd(i) ==
    LET call == chatCalls[i]
    IN  /\ EffectsFlushed
        /\ chatCalls' = RemoveAt(chatCalls, i)
        /\ chatUpdates' = Append(chatUpdates,
                                 [op |-> "setIsStreaming", value |-> FALSE, call |-> call])
        /\ event' = [op |-> "streamEnd", yielded |-> call.yielded,
                     botMsgId |-> call.botMsgId]
        /\ UNCHANGED <<now, currentView, storeVars, listVars, dashVars, messages,
                       inputValue, isStreaming, chatSessionRef, sessionsCreated,
                       fileReads, catCalls, insCalls, fnVars>>

\* the updater of the catch block
ErrorShown_Append(prev, errorText, t) ==
    prev \o << ChatMessage(ToString(t), "model", errorText, t) >>

ErrorShown(prev, errorText, t) ==
    LET lastMsg == prev[Len(prev)]
        errMsg  == ChatMessage(ToString(t), "model", errorText, t)
    IN  IF lastMsg.role = "model" /\ lastMsg.text = ""
        THEN SubSeq(prev, 1, Len(prev) - 1) \o <<errMsg>>
        ELSE prev \o <<errMsg>>

ChatErrorText_Generic(error) == CHAT_ERROR

ChatErrorText(error) ==
    IF isRateLimitError(error) THEN CHAT_USAGE_LIMIT ELSE CHAT_ERROR

\* sendMessageStream or the stream of call i fails: the catch block chooses
\* the text and queues its updater, the finally block queues
\* setIsStreaming(false)
StreamFailed(i, error) ==
    LET call == chatCalls[i]
    IN  /\ EffectsFlushed
        /\ chatCalls' = RemoveAt(chatCalls, i)
        /\ chatUpdates' = chatUpdates \o
               << [op |-> "error", errorText |-> ChatErrorText(error),
                   error |-> error, call |-> call],
                  [op |-> "setIsStreaming", value |-> FALSE, call |-> call] >>
        /\ event' = [op |-> "streamFailed", error |-> error,
                     yielded |-> call.yielded, botMsgId |-> call.botMsgId]
        /\ UNCHANGED <<now, currentView, storeVars, listVars, dashVars, messages,
                       inputValue, isStreaming, chatSessionRef, sessionsCreated,
                       fileReads, catCalls, insCalls, fnVars>>

RECURSIVE MessagesRendered(_, _, _)
\* the messages after React has run the queued updaters in their order; the
\* updater of the catch block reads the clock when it runs
MessagesRendered(prev, updates, t) ==
    IF Len(updates) = 0 THEN prev
    ELSE LET u == updates[1]
         IN  MessagesRendered(
                 IF u.op = "chunk" THEN ChunkApplied(prev, u.botMsgId, u.fullText)
                 ELSE IF u.op = "error" THEN ErrorShown(prev, u.errorText, t)
                 ELSE prev,
                 Tail(updates), t)

\* React renders the ChatBot: the updates queued since the last render, those
\* of one chunk or of several, take effect together
renderChatBot ==
    /\ currentView = CHAT
    /\ Len(chatUpdates) > 0
    /\ messages' = MessagesRendered(messages, chatUpdates, now)
    /\ isStreaming' = IF \E k \in 1..Len(chatUpdates) : chatUpdates[k].op = "setIsStreaming"
                      THEN FALSE ELSE isStreaming
    /\ chatUpdates' = <<>>
    /\ event' = [op |-> "render", updates |-> chatUpdates]
    /\ UNCHANGED <<now, currentView, storeVars, listVars, dashVars, inputValue,
                   chatSessionRef, sessionsCreated, callVars, fnVars>>

(***************************************************************************)
(* The environment: what the user enters and what the remote service does. *)
(***************************************************************************)
NetworkError   == ErrorObj(NoStatus, "Failed to fetch")
TooManyError   == ErrorObj(NumStatus(429), "Too Many Requests")
QuotaError     == ErrorObj(NoStatus, "quota exceeded")
RemoteErrors   == {NetworkError, TooManyError, QuotaError}

\* what JSON.parse throws, by engine and text
ParseErrors ==
    { ThrownValue(NoStatus, "SyntaxError: Unexpected token <"),
      ThrownValue(NoStatus, "SyntaxError: \"quota\" is not valid JSON") }

FirstImportId == ToString(ClockStart) \o "0"

CategorizedRecord(id, category, isAnomaly) ==
    [id |-> id, category |-> category, isAnomaly |-> isAnomaly]

ResponseRecords == {
    CategorizedRecord("9", "Food & Dining", FALSE),
    CategorizedRecord("9", "Shopping", TRUE),
    CategorizedRecord(FirstImportId, "Crypto", FALSE) }

RECURSIVE SeqsUpTo(_, _)
\* the sequences over S of length at most n
SeqsUpTo(S, n) ==
    IF n = 0 THEN {<<>>}
    ELSE SeqsUpTo(S, n - 1) \cup
         {Append(q, x) : q \in {r \in SeqsUpTo(S, n - 1) : Len(r) = n - 1}, x \in S}


FailureOutcomes ==
    {Rejected(e) : e \in RemoteErrors} \cup {Resolved(EmptyText)}
        \cup {Resolved(MalformedText(e)) : e \in ParseErrors}

CategorizeOutcomes ==
    {Resolved(JsonText(rs)) : rs \in SeqsUpTo(ResponseRecords, MaxResults)}
        \cup FailureOutcomes

\* the outcomes of the three-operation specification
FewCategorizeOutcomes ==
    { Resolved(JsonText(<<CategorizedRecord("9", "Food & Dining", FALSE)>>)),
      Rejected(NetworkError), Rejected(TooManyError) }

\* the outcomes of the persistence specification: a response for the
\* transaction sent, a response that names a transaction the request did not
\* hold, and a failure
StoreOutcomes ==
    { Resolved(JsonText(<<CategorizedRecord("9", "Food & Dining", FALSE)>>)),
      Resolved(JsonText(<<CategorizedRecord("3", "Shopping", TRUE)>>)),
      Rejected(NetworkError) }

InsightOutcomes ==
    { Resolved(PlainText("- You spend a lot on coffee.")), Resolved(EmptyText) }
        \cup {Rejected(e) : e \in RemoteErrors}

CsvFiles == { "Date,Description,Amount\n2023-12-01,Coffee,-4.50\nbad,row" }

EditIds == {"9", FirstImportId}
EditCategories == {"Shopping", "Uncategorized"}

\* what the user types: nothing, white space alone (a space and a vertical
\* tab), a message
ChatInputs == {"", " ", "hi"}
\* the chunks of the replies the service streams: a reply in three chunks,
\* and one whose first chunk has no text
Replies == { <<"Hel", "lo, ", "how can I help?">>, <<"", "Hel">> }
ChatErrors == {NetworkError, QuotaError}

(***************************************************************************)
(* Steps of the application.  The code sets no limit to the calls in       *)
(* flight: a list mounted again starts a call of its own while those of    *)
(* earlier visits are outstanding.  The specifications follow MaxInFlight  *)
(* categorize calls at a time.                                             *)
(***************************************************************************)
Navigate(views) == \E view \in views : setCurrentView(view)

\* how many transactions each file adds, at whatever time it is read
CsvFileRows == [text \in CsvFiles |-> Len(newTransactions(text, ClockStart))]

RECURSIVE RowsDue(_)
\* how many transactions the files being read will add
RowsDue(reads) ==
    IF Len(reads) = 0 THEN 0 ELSE CsvFileRows[reads[1].text] + RowsDue(Tail(reads))

\* an import that leaves at most limit transactions in the store
UploadUpTo(limit) ==
    \E text \in CsvFiles :
        /\ Len(transactions) + RowsDue(fileReads) + CsvFileRows[text] <= limit
        /\ handleFileUpload(text)

Loads == \E i \in 1..Len(fileReads) : onload(i)

Edit(categories) ==
    \E id \in EditIds, c \in categories :
        /\ \E i \in 1..Len(transactions) : transactions[i].id = id
        /\ c \in {CATEGORIES[k] : k \in 1..Len(CATEGORIES)}
        /\ handleCategoryChange(id, c)

CategorizeSettles(outcomes) ==
    \E i \in 1..Len(catCalls), outcome \in outcomes : CategorizeSettled(i, outcome)

InsightsSettles ==
    \E i \in 1..Len(insCalls), outcome \in InsightOutcomes : InsightsSettled(i, outcome)

Types(values) == \E value \in values : setInputValue(value)

\* the stream of a call yields the next chunk of one of the replies
StreamYields(replies) ==
    \E i \in 1..Len(chatCalls), r \in replies :
        LET n == Len(chatCalls[i].yielded)
        IN  /\ n < Len(r)
            /\ SubSeq(r, 1, n) = chatCalls[i].yielded
            /\ StreamChunk(i, r[n + 1])

StreamEnds == \E i \in 1..Len(chatCalls) : StreamEnd(i)

StreamFails(errors) ==
    \E i \in 1..Len(chatCalls), e \in errors : StreamFailed(i, e)

(***************************************************************************)
(* Spec: the three gateway operations behind the three views, and the     *)
(* clock, which the chat reads to name and date its messages.              *)
(***************************************************************************)
Next ==
    \/ Tick
    \/ Navigate(MenuViews)
    \/ Len(catCalls) < MaxInFlight /\ runAutoCategorization
    \/ CategorizeSettles(FewCategorizeOutcomes)
    \/ persistTransactions
    \/ handleGenerateInsights
    \/ InsightsSettles
    \/ Types({"", "hi"})
    \/ handleSend
    \/ StreamYields({<<"Hel">>})
    \/ StreamEnds
    \/ StreamFails(ChatErrors)
    \/ renderChatBot

Spec == Init /\ [][Next]_vars

(***************************************************************************)
(* SpecMerge: categorization against the seeded store.  Transaction 9 is   *)
(* put back to Uncategorized by hand, so that requests repeat; every       *)
(* response and failure of the request is drawn.                           *)
(***************************************************************************)
NextMerge ==
    \/ Navigate({DASHBOARD, TRANSACTIONS})
    \/ persistTransactions
    \/ Edit({"Uncategorized"})
    \/ Len(catCalls) < MaxInFlight /\ runAutoCategorization
    \/ CategorizeSettles(CategorizeOutcomes)

SpecMerge == Init /\ [][NextMerge]_vars

(***************************************************************************)
(* SpecPersist: the application started on what an earlier run left in     *)
(* localStorage: nothing, or the seed data with an import whose amount    *)
(* was not finite.                                                         *)
(***************************************************************************)
EarlierImport ==
    newTransactions("Date,Description,Amount\n2023-11-30,Bonus,Infinity", ClockStart - 1)

SavedItems ==
    { NoItem,
      JsonItem(JSONStringify(INITIAL_DATA \o EarlierImport)) }

InitPersist ==
    /\ \E saved \in SavedItems : AppInit(Loaded(saved)) /\ input = saved
    /\ output = Unset

NextPersist ==
    \/ Navigate({DASHBOARD, TRANSACTIONS})
    \/ UploadUpTo(MaxStore)
    \/ Loads
    \/ persistTransactions
    \/ Edit({"Shopping"})
    \/ Len(catCalls) < MaxInFlight /\ runAutoCategorization
    \/ CategorizeSettles(StoreOutcomes)

SpecPersist == InitPersist /\ [][NextPersist]_vars

\* React runs every effect it has scheduled
SpecPersistFair == SpecPersist /\ WF_vars(persistTransactions)

(***************************************************************************)
(* SpecIds: imports one after the other, with or without a tick of the     *)
(* clock between them, and category edits.                                 *)
(***************************************************************************)
NextIds ==
    \/ Tick
    \/ Navigate({DASHBOARD, TRANSACTIONS})
    \/ UploadUpTo(MaxImported)
    \/ Loads
    \/ persistTransactions
    \/ Edit(EditCategories)

SpecIds == Init /\ [][NextIds]_vars

(***************************************************************************)
(* SpecChat: the chat view.                                                *)
(***************************************************************************)
NextChat ==
    \/ Tick
    \/ Navigate({DASHBOARD, CHAT})
    \/ Types(ChatInputs)
    \/ handleSend
    \/ StreamYields(Replies)
    \/ StreamEnds
    \/ StreamFails(ChatErrors)
    \/ renderChatBot

SpecChat == Init /\ [][NextChat]_vars

(***************************************************************************)
(* SpecRateLimit: isRateLimitError applied to an error value.              *)
(***************************************************************************)
ErrorPieces == {"4", "29", "429", "9", "RESOURCE_EXHAUSTED", "RESOURCE_EXHAUSTE", "D",
                "resource_exhausted", "quota", "Quota", "QUOTA", "quot", "a", "x: "}

RECURSIVE PieceStrings(_)
\* the concatenations of at most n pieces
PieceStrings(n) ==
    IF n = 0 THEN {""}
    ELSE PieceStrings(n - 1) \cup {s \o p : s \in PieceStrings(n - 1), p \in ErrorPieces}

ErrorStatuses == {NoStatus, NumStatus(429), NumStatus(500), StrStatus(429)}

ErrorValues ==
    {FalsyError} \cup
    {ThrownValue(st, str) : st \in ErrorStatuses, str \in PieceStrings(MaxPieces)}

InitRateLimit ==
    /\ AppInit(INITIAL_DATA)
    /\ input \in ErrorValues
    /\ output = Unset

Classify ==
    /\ event.op = "init"
    /\ output' = isRateLimitError(input)
    /\ event' = [op |-> "isRateLimitError"]
    /\ UNCHANGED <<now, currentView, storeVars, listVars, dashVars, chatVars, callVars, input>>

SpecRateLimit == InitRateLimit /\ [][Classify]_vars

(***************************************************************************)
(* SpecCsv: one CSV text imported into the seeded store.                   *)
(***************************************************************************)
CsvHeaders == {"Date,Description,Amount", "2023-11-30,Opening,100"}
CsvDates == {"", "2023-12-01"}
\* a description of white space alone (a vertical tab and a space)
CsvDescriptions == {" ", "Coffee"}
CsvAmounts == {"5", "-4.50", "x", "", " 7x", "-0", "-", ".5"}
CsvRows ==
    {"2023-12-01,Coffee," \o a : a \in CsvAmounts}
        \cup {d \o "," \o t \o ",5" : d \in CsvDates, t \in CsvDescriptions}
        \cup {"", "Coffee,5", "2023-12-01,Coffee,Shop,5", ",,-3,note"}

RECURSIVE CsvTextsOf(_)
\* a header line followed by at most n rows
CsvTextsOf(n) ==
    IF n = 0 THEN CsvHeaders
    ELSE CsvTextsOf(n - 1) \cup
         {text \o "\n" \o row : text \in CsvTextsOf(n - 1), row \in CsvRows}

CsvTexts == CsvTextsOf(MaxRows)

InitCsv ==
    /\ AppInit(INITIAL_DATA)
    /\ input \in CsvTexts
    /\ output = Unset

OpenTransactions == event.op = "init" /\ setCurrentView(TRANSACTIONS)

ImportInput == event.op = "setCurrentView" /\ handleFileUpload(input)

NextCsv == OpenTransactions \/ ImportInput \/ Loads \/ persistTransactions

SpecCsv == InitCsv /\ [][NextCsv]_vars

(***************************************************************************)
(* SpecInsights: the insight request over stores of every size up to MaxTx.*)
(***************************************************************************)
ManyTransactions(n) ==
    [i \in 1..n |-> Transaction(ToString(i), "2024-01-01", "Item " \o ToString(i),
                                Dec(i, 0), EXPENSE, "Shopping")]

InitInsights ==
    /\ \E n \in 0..MaxTx : AppInit(ManyTransactions(n))
    /\ input = Unset
    /\ output = Unset

NextInsights == handleGenerateInsights \/ InsightsSettles

SpecInsights == InitInsights /\ [][NextInsights]_vars

(***************************************************************************)
(* Properties.                                                             *)
(***************************************************************************)
Min(S) == CHOOSE x \in S : \A y \in S : x <= y

\* sub occurs in s at some position
Occurs(s, sub) ==
    \E i \in 1..(Len(s) - Len(sub) + 1) : SubSeq(s, i, i + Len(sub) - 1) = sub

IsJsonResponse(outcome) == outcome.settled = "resolved" /\ outcome.text.kind = "json"

\* C1: when a categorize response is merged, the list keeps its length and
\* order; every transaction keeps id, date, description, amount and type; a
\* transaction whose id is absent from the response is unchanged; a
\* transaction whose id is in the response gets the category and isAnomaly of
\* the response's (first) record for that id.
MergeFrame ==
    [][ (event'.op = "categorizeSettled" /\ IsJsonResponse(event'.outcome)) =>
        LET results == event'.outcome.text.value
        IN  /\ Len(transactions') = Len(transactions)
            /\ \A i \in 1..Len(transactions) :
                 LET t  == transactions[i]
                     u  == transactions'[i]
                     ms == {k \in 1..Len(results) : results[k].id = t.id}
                 IN  /\ u.id = t.id /\ u.date = t.date /\ u.description = t.description
                     /\ u.amount = t.amount /\ u.type = t.type
                     /\ ms = {} => u = t
                     /\ ms # {} => /\ u.category = results[Min(ms)].category
                                   /\ HasAnomalyField(u)
                                   /\ u.isAnomaly = results[Min(ms)].isAnomaly
      ]_vars

\* C1 witness: a response naming transaction 9 twice and an id the store
\* lacks has been merged: 9 carries the first record's values, 8 is untouched
MergeFrameWitness ==
    /\ event.op = "categorizeSettled"
    /\ IsJsonResponse(event.outcome)
    /\ Len(event.outcome.text.value) = 2
    /\ event.outcome.text.value[1] = CategorizedRecord("9", "Shopping", TRUE)
    /\ event.outcome.text.value[2].id = "9"
    /\ transactions[9].category = "Shopping"
    /\ transactions[9].isAnomaly
    /\ transactions[8] = INITIAL_DATA[8]

IsRemoteFailure(outcome) ==
    outcome.settled = "rejected" \/ outcome.text.kind \in {"empty", "malformed"}

\* the error the failed call leaves in the catch block, if any
FailureErrors(outcome) ==
    IF outcome.settled = "rejected" THEN {outcome.error}
    ELSE IF outcome.text.kind = "malformed" THEN {outcome.text.error}
    ELSE {}

\* C2: when the remote call of categorizeTransactions fails, the function
\* throws the RATE_LIMIT error exactly when the failure is classified as
\* rate-limited; otherwise it throws nothing and returns the empty list, and
\* the store and the error line are as before.
CategorizeFailure ==
    [][ (event'.op = "categorizeSettled" /\ IsRemoteFailure(event'.outcome)) =>
        LET limited == \E e \in FailureErrors(event'.outcome) : isRateLimitError(e)
        IN  /\ event'.result.threw <=> limited
            /\ limited => event'.result = Threw(RATE_LIMIT)
            /\ ~limited => /\ event'.result = Returned(<<>>)
                           /\ transactions' = transactions
                           /\ storage' = storage
                           /\ errorMsg' = errorMsg
      ]_vars

\* C2 witness: a network error was swallowed while the list view was open
CategorizeFailureWitness ==
    /\ event.op = "categorizeSettled"
    /\ event.outcome = Rejected(NetworkError)
    /\ event.result = Returned(<<>>)
    /\ event.mounted
    /\ errorMsg = Null

\* C3: isRateLimitError is true exactly for an error value that is not falsy
\* and has the number 429 as status or "429", "RESOURCE_EXHAUSTED" or "quota"
\* (in this case) somewhere in its string form.
RateLimitClassifier ==
    event.op = "isRateLimitError" =>
        (output <=> /\ ~input.falsy
                    /\ \/ input.status = NumStatus(429)
                       \/ Occurs(input.str, "429")
                       \/ Occurs(input.str, "RESOURCE_EXHAUSTED")
                       \/ Occurs(input.str, "quota"))

\* C3 witness: an error without status classified by the word quota alone
RateLimitClassifierWitness ==
    /\ event.op = "isRateLimitError"
    /\ output
    /\ input.status = NoStatus
    /\ ~Occurs(input.str, "429")
    /\ ~Occurs(input.str, "RESOURCE_EXHAUSTED")

\* the concatenation of the first k chunks
Prefix(chunks, k) == Concat(SubSeq(chunks, 1, k))

\* C4: for a stream that yields the chunks c1..cn every text c1+...+ck is
\* rendered, in order of k: a render of the bot message, the last of the
\* list, shows the text of the render before or that text with the one next
\* chunk, never more; and the render after the end of the stream shows
\* c1+...+cn.
IncrementalRender ==
    [][ (event'.op = "render" /\ \A j \in 1..Len(chatUpdates) : chatUpdates[j].op # "error") =>
        \A chunks \in {IF Len(chatCalls) > 0 THEN chatCalls[1].yielded
                       ELSE chatUpdates[Len(chatUpdates)].call.yielded} :
            LET shown == messages[Len(messages)].text
                next  == messages'[Len(messages')].text
            IN  /\ \E k \in 0..Len(chunks) :
                     /\ shown = Prefix(chunks, k)
                     /\ next \in {Prefix(chunks, k),
                                  Prefix(chunks, IF k < Len(chunks) THEN k + 1 ELSE k)}
                /\ Len(chatCalls) = 0 => next = Concat(chunks)
      ]_vars

\* C5: when the insight call fails with an error classified as rate limit,
\* the insight text is the busy-system message and isRateLimit is true; when
\* it fails with any other error, isRateLimit is false and the insight text
\* is the gateway's fixed failure message.
InsightFailure ==
    (event.op = "insightsSettled" /\ event.outcome.settled = "rejected") =>
        IF isRateLimitError(event.outcome.error)
        THEN insight = SYSTEM_BUSY /\ isRateLimit /\ ~loadingInsight
        ELSE insight = INSIGHTS_FALLBACK /\ ~isRateLimit /\ ~loadingInsight

\* C5 witness: a network error left the fixed failure message
InsightFailureWitness ==
    /\ event.op = "insightsSettled"
    /\ event.outcome = Rejected(NetworkError)
    /\ insight = INSIGHTS_FALLBACK
    /\ ~isRateLimit

\* C6: at most one chat session is created in an application lifetime and
\* every message is sent on it.
SingleChatSession ==
    /\ sessionsCreated <= 1
    /\ event.op = "handleSend" => event.session = 1

\* the text has a leading number: optional white space and sign, then a
\* digit, a point followed by a digit, or the word Infinity
NumericPrefix(field) ==
    LET s == TrimStart(field)
        u == IF Len(s) > 0 /\ CharAt(s, 1) \in {"+", "-"} THEN SubSeq(s, 2, Len(s)) ELSE s
    IN  \/ Len(u) >= 1 /\ CharAt(u, 1) \in Digits
        \/ Len(u) >= 2 /\ CharAt(u, 1) = "." /\ CharAt(u, 2) \in Digits
        \/ Len(u) >= 8 /\ SubSeq(u, 1, 8) = "Infinity"

\* the whole text, white space at its ends aside, is a decimal numeral
WhollyNumeric(field) ==
    LET s == Trim(field)
        n == Len(s)
        dots == {i \in 1..n : CharAt(s, i) = "."}
    IN  /\ \E i \in 1..n : CharAt(s, i) \in Digits
        /\ \A i \in 1..n : \/ CharAt(s, i) \in Digits \cup {"."}
                           \/ i = 1 /\ CharAt(s, i) \in {"+", "-"}
        /\ Cardinality(dots) <= 1

\* the transactions an import appended
Appended == SubSeq(transactions', Len(transactions) + 1, Len(transactions'))

\* those of them that come from the data row of index idx
FromRow(new, idx, t) == SelectSeq(new, LAMBDA x : x.id = ToString(t) \o ToString(idx))

DataRows(text) == LET lines == Split(text, "\n") IN SubSeq(lines, 2, Len(lines))

GoodRow(row) == Len(Split(row, ",")) >= 3 /\ NumericPrefix(Split(row, ",")[3])

\* C7: every line after the first that has at least 3 comma-separated fields
\* and an amount field that parses as a number gives exactly one transaction:
\* amount the absolute value of the parsed amount, type EXPENSE if the parsed
\* amount is negative and INCOME otherwise, category Uncategorized, date and
\* description trimmed, defaulting to today and Unknown when empty; the
\* first line gives none.
ImportGoodRows ==
    [][ event'.op = "onload" =>
        \A rows \in {DataRows(event'.text)} : \A new \in {Appended} :
            /\ \A k \in 1..Len(rows) : \A parts \in {Split(rows[k], ",")} :
                 (Len(parts) >= 3 /\ NumericPrefix(parts[3])) =>
                   \A got \in {FromRow(new, k - 1, now)} :
                       /\ Len(got) = 1
                       /\ got[1].amount = MathAbs(parseFloat(parts[3]))
                       /\ ~got[1].amount.neg
                       /\ got[1].type =
                            IF CharAt(TrimStart(parts[3]), 1) = "-" /\ got[1].amount # Dec(0, 0)
                            THEN EXPENSE ELSE INCOME
                       /\ got[1].category = "Uncategorized"
                       /\ got[1].date =
                            IF Trim(parts[1]) = "" THEN ISODate(now) ELSE Trim(parts[1])
                       /\ got[1].description =
                            IF Trim(parts[2]) = "" THEN "Unknown" ELSE Trim(parts[2])
            /\ \A j \in 1..Len(new) :
                 \E k \in 1..Len(rows) : new[j].id = ToString(now) \o ToString(k - 1)
            /\ Len(new) <= Len(rows)
            /\ SubSeq(transactions', 1, Len(transactions)) = transactions
      ]_vars

\* C7 witness: a file whose header reads like a data row and whose rows are
\* an income without date and with a description of white space (a vertical
\* tab and a space) and an expense was imported as two
ImportGoodRowsWitness ==
    /\ event.op = "onload"
    /\ event.text = "2023-11-30,Opening,100\n, ,5\n2023-12-01,Coffee,-4.50"
    /\ Len(transactions) = Len(INITIAL_DATA) + 2
    /\ transactions[10] = Transaction(ToString(ClockStart) \o "0", ISODate(now), "Unknown",
                                      Dec(5, 0), INCOME, "Uncategorized")
    /\ transactions[11] = Transaction(ToString(ClockStart) \o "1", "2023-12-01", "Coffee",
                                      Dec(45, 1), EXPENSE, "Uncategorized")

\* C8 as stated, reading non-numeric as: the amount field is not a numeral
\* as a whole. A row with fewer than 3 fields or such an amount field gives
\* no transaction.
BadRowsDroppedStrict ==
    [][ event'.op = "onload" =>
        \A rows \in {DataRows(event'.text)} : \A new \in {Appended} :
            \A k \in 1..Len(rows) : \A parts \in {Split(rows[k], ",")} :
              (Len(parts) < 3 \/ ~WhollyNumeric(parts[3]))
                 => Len(FromRow(new, k - 1, now)) = 0
      ]_vars

\* C8: a row gives no transaction exactly when it has fewer than 3
\* comma-separated fields or its third field has no leading number; a third
\* field that starts with a number and goes on with other text is imported
\* with the leading number for amount.
BadRowsDropped ==
    [][ event'.op = "onload" =>
        \A rows \in {DataRows(event'.text)} : \A new \in {Appended} :
            /\ \A k \in 1..Len(rows) :
                 Len(FromRow(new, k - 1, now)) = 0 <=> ~GoodRow(rows[k])
            /\ Len(new) = Cardinality({k \in 1..Len(rows) : GoodRow(rows[k])})
      ]_vars

\* C8 witness: a row of two fields and a row whose amount is a letter were
\* both dropped
BadRowsDroppedWitness ==
    /\ event.op = "onload"
    /\ event.text = "Date,Description,Amount\nCoffee,5\n2023-12-01,Coffee,x"
    /\ transactions = INITIAL_DATA

\* C9: the prompt of an insight request is built from exactly the first
\* min(50, n) transactions of the store, one line each, in their order;
\* transactions at position 51 and later do not occur in it.
InsightPromptPrefix ==
    event.op = "handleGenerateInsights" =>
        \A summary \in {insCalls[Len(insCalls)].summary} :
        \A lines \in {Split(summary, "\n")} :
            LET n == Len(transactions)
                m == IF n < 50 THEN n ELSE 50
            IN  /\ n = 0 => summary = ""
                /\ n > 0 => /\ Len(lines) = m
                            /\ \A k \in 1..m : lines[k] = InsightLine(transactions[k])
                /\ \A k \in 51..n : ~Occurs(summary, transactions[k].description)

\* C9 witness: a request made with 52 transactions in the store
InsightPromptPrefixWitness ==
    /\ event.op = "handleGenerateInsights"
    /\ Len(transactions) = 52
    /\ Len(Split(insCalls[1].summary, "\n")) = 50

\* what the insight panel and the chat show after a remote failure
InsightAndChatFailureShown ==
    /\ (event.op = "insightsSettled" /\ event.outcome.settled = "rejected") =>
         /\ insight = IF isRateLimitError(event.outcome.error)
                      THEN SYSTEM_BUSY ELSE INSIGHTS_FALLBACK
         /\ ~loadingInsight
    /\ event.op = "render" =>
         \A k \in 1..Len(event.updates) :
             event.updates[k].op = "error" =>
                 /\ messages[Len(messages)].role = "model"
                 /\ messages[Len(messages)].text =
                      IF isRateLimitError(event.updates[k].error)
                      THEN CHAT_USAGE_LIMIT ELSE CHAT_ERROR
                 /\ ~isStreaming

\* C10 as stated: after a remote failure of categorize, insights or chat send
\* the user sees a generic failure message when the failure is not a rate
\* limit and the wait-a-minute message when it is, and the busy flag is off.
FailureSurfaced ==
    /\ InsightAndChatFailureShown
    /\ (event.op = "categorizeSettled" /\ event.mounted
          /\ event.outcome.settled = "rejected") =>
         /\ errorMsg = IF isRateLimitError(event.outcome.error)
                       THEN QUOTA_EXCEEDED ELSE CATEGORIZE_FAILED
         /\ ~isAutoCategorizing

\* C10: insights and chat send show a generic failure message after a remote
\* failure that is not a rate limit; categorize shows none (the gateway
\* swallows the failure and the error line stays empty); all three show
\* their wait-a-minute message after a rate-limit failure; the busy flag is
\* off in every case.
FailureSurfacedExceptCategorize ==
    /\ InsightAndChatFailureShown
    /\ (event.op = "categorizeSettled" /\ event.mounted
          /\ event.outcome.settled = "rejected") =>
         /\ errorMsg = IF isRateLimitError(event.outcome.error)
                       THEN QUOTA_EXCEEDED ELSE Null
         /\ ~isAutoCategorizing
    /\ errorMsg # CATEGORIZE_FAILED

\* C10 witness: a network error of categorize left the error line empty
\* while the list was on screen
FailureSurfacedExceptCategorizeWitness ==
    /\ event.op = "categorizeSettled"
    /\ event.mounted
    /\ event.outcome = Rejected(NetworkError)
    /\ currentView = TRANSACTIONS
    /\ errorMsg = Null
    /\ ~isAutoCategorizing

\* C11: after a chat send whose stream fails, at the render that follows,
\* the last message is a model message with the usage-limit text if the
\* error is classified as rate limit and the generic error text otherwise;
\* if the request's placeholder was still empty (no text was streamed) the
\* error message stands in its place, and if text had been streamed the
\* partial message is kept, with all of that text, and the error message
\* follows it; the messages before are as they were (but for one that has
\* the placeholder's id, of a request sent in the same millisecond, which
\* the updaters of the chunks change with it).
StreamFailureShown ==
    [][ event'.op = "render" =>
        \A j \in 1..Len(chatUpdates) :
            chatUpdates[j].op = "error" =>
                LET n    == Len(messages)
                    m    == Len(messages')
                    full == Concat(chatUpdates[j].call.yielded)
                    text == IF isRateLimitError(chatUpdates[j].error)
                            THEN CHAT_USAGE_LIMIT ELSE CHAT_ERROR
                IN  /\ messages[n].id = chatUpdates[j].call.botMsgId
                    /\ messages'[m].role = "model"
                    /\ messages'[m].text = text
                    /\ \A k \in 1..(n - 1) :
                         messages[k].id # messages[n].id => messages'[k] = messages[k]
                    /\ full = "" => m = n
                    /\ full # "" =>
                         /\ m = n + 1
                         /\ messages'[n] = [messages[n] EXCEPT !.text = full]
      ]_vars

\* C11 witness: the stream failed with a quota error right after "Hel", before
\* React had rendered that chunk: the one render shows the partial message
\* followed by the usage-limit message
StreamFailureShownWitness ==
    /\ event.op = "render"
    /\ Len(event.updates) = 3
    /\ event.updates[1].op = "chunk"
    /\ event.updates[2].op = "error"
    /\ event.updates[2].error = QuotaError
    /\ event.updates[2].call.yielded = <<"Hel">>
    /\ Len(messages) = 4
    /\ messages[3].text = "Hel"
    /\ messages[4].text = CHAT_USAGE_LIMIT

\* the JSON value of a stored amount: a finite number is itself, anything
\* else is null
Serialized(t) ==
    [f \in DOMAIN t |->
        IF f # "amount" THEN t[f]
        ELSE IF t[f].kind # "num" THEN JSONNull
        ELSE IF t[f].mant = 0 THEN Dec(0, 0)
        ELSE t[f]]

\* the persisted text is the serialization of the current list
Persisted ==
    /\ Len(storage) = Len(transactions)
    /\ \A i \in 1..Len(transactions) : storage[i] = Serialized(transactions[i])

\* C12: the store starts as the list persisted by an earlier run if there is
\* one and as the seed data otherwise; the persisted text is never read
\* again; every change of the list (import, category edit, categorize merge)
\* schedules the effect that rewrites the persisted text, the effect runs,
\* and whenever none is due the persisted text is the serialization of the
\* current list.
PersistedFollowsStore ==
    /\ [](event.op = "init" =>
            transactions = IF input = NoItem THEN INITIAL_DATA ELSE input.value)
    /\ [](~persistDue => Persisted)
    /\ [][ /\ event'.op \in {"onload", "handleCategoryChange"} => persistDue'
           /\ (event'.op = "categorizeSettled" /\ ~event'.result.threw) => persistDue'
           /\ transactions' # transactions => persistDue'
           /\ storage' # storage => (event'.op = "useEffect" /\ ~persistDue')
         ]_vars
    /\ (persistDue ~> ~persistDue)

\* C12 witness: started on a persisted list of ten transactions, the ninth
\* was categorized by hand, the effect has run and the text holds that
\* category
PersistedFollowsStoreWitness ==
    /\ input \in SavedItems \ {NoItem}
    /\ Len(input.value) = 10
    /\ event.op = "useEffect"
    /\ event.after.op = "handleCategoryChange"
    /\ transactions[9].category = "Shopping"
    /\ storage[9].category = "Shopping"
    /\ storage[10].amount = JSONNull

\* C13: transactions are never deleted: in every step the store's length
\* does not decrease and every transaction keeps its position and its id, so
\* every id stays present and the order of existing transactions is kept.
NeverDeleted ==
    [][ /\ Len(transactions') >= Len(transactions)
        /\ \A i \in 1..Len(transactions) : transactions'[i].id = transactions[i].id
      ]_vars

\* C13 witness: after an import, a response that names only transaction 9
\* was merged and the imported transaction is still the tenth
NeverDeletedWitness ==
    /\ event.op = "categorizeSettled"
    /\ IsJsonResponse(event.outcome)
    /\ event.outcome.text.value = <<CategorizedRecord("9", "Food & Dining", FALSE)>>
    /\ Len(transactions) = Len(INITIAL_DATA) + 1
    /\ transactions[10].id = FirstImportId
    /\ transactions[9].category = "Food & Dining"

\* C14: a chat message once added to the list is never removed from it,
\* whatever sends, stream ends, stream failures and view switches occur: in
\* every step every message the user has sent stays in the list, where it is.
ChatMessagesKept ==
    [][ \A i \in 1..Len(messages) :
          messages[i].role = "user" =>
            (Len(messages') >= i /\ messages'[i] = messages[i])
      ]_vars

\* the settling update of a chat call is queued and waits for the render
ChatSettleQueued(updates) ==
    \E k \in 1..Len(updates) : updates[k].op = "setIsStreaming"

\* the busy flag is off once the call has settled (for the chat: once the
\* settled call is rendered), whatever the outcome, and is on only while a
\* call of the view on screen is outstanding
BusyFlagReset ==
    /\ (event.op = "categorizeSettled" /\ event.mounted) => ~isAutoCategorizing
    /\ event.op = "insightsSettled" => ~loadingInsight
    /\ (event.op = "render" /\ ChatSettleQueued(event.updates)) => ~isStreaming
    /\ isAutoCategorizing => \E i \in 1..Len(catCalls) : catCalls[i].mounted
    /\ loadingInsight => Len(insCalls) > 0
    /\ isStreaming => (Len(chatCalls) > 0 \/ ChatSettleQueued(chatUpdates))

\* C15 as stated: the busy flag of each operation is on while its remote
\* call is outstanding and off once the call has settled.
BusyWhileOutstanding ==
    /\ BusyFlagReset
    /\ (currentView = TRANSACTIONS /\ Len(catCalls) > 0) => isAutoCategorizing
    /\ Len(insCalls) > 0 => loadingInsight
    /\ Len(chatCalls) > 0 => isStreaming

\* C15: the busy flag of each operation is on from the start of a remote
\* call until the call settles as long as the view that started it stays on
\* screen, and is off once the call has settled, whatever the outcome; it is
\* never on without such a call.  Leaving the view drops the flag: back on
\* the view the flag is off although the call is still outstanding.
BusyWhileOutstandingOnScreen ==
    /\ BusyFlagReset
    /\ \A i \in 1..Len(catCalls) :
         catCalls[i].mounted => (currentView = TRANSACTIONS /\ isAutoCategorizing)
    /\ Len(insCalls) > 0 => (currentView = DASHBOARD /\ loadingInsight)
    /\ Len(chatCalls) > 0 => (currentView = CHAT /\ isStreaming)

\* C15 witness: back on the list view the flag was off although the call of
\* the earlier visit was outstanding, and a second call has been started:
\* both are in flight and the flag is on for the second
BusyWhileOutstandingOnScreenWitness ==
    /\ currentView = TRANSACTIONS
    /\ Len(catCalls) = 2
    /\ ~catCalls[1].mounted
    /\ catCalls[2].mounted
    /\ isAutoCategorizing
    /\ event.op = "runAutoCategorization"

\* the ids of a sequence of records
IdsOf(xs) == {xs[k].id : k \in 1..Len(xs)}

\* the ids the settled call names in the list it hands to the merge
Named(result) == IF result.threw THEN {} ELSE IdsOf(result.value)

\* C16: no store update is lost: when a categorize call settles, every
\* transaction of the latest list, also one imported or edited by hand while
\* the call was in flight, is in the new list at its position, and is
\* unchanged if the response does not name it.
NoLostUpdate ==
    [][ event'.op = "categorizeSettled" =>
        /\ Len(transactions') = Len(transactions)
        /\ \A i \in 1..Len(transactions) :
             /\ transactions'[i].id = transactions[i].id
             /\ transactions[i].id \notin Named(event'.result) =>
                  transactions'[i] = transactions[i]
      ]_vars

\* C16 witness: the request was sent for transaction 9 alone and its response
\* was merged; the tenth transaction is Uncategorized and was not sent, so it
\* was imported, or put back to Uncategorized by hand, while the call was in
\* flight, and it is in the store
NoLostUpdateWitness ==
    /\ event.op = "categorizeSettled"
    /\ IdsOf(event.sent) = {"9"}
    /\ Named(event.result) = {"9"}
    /\ transactions[9].category = "Food & Dining"
    /\ Len(transactions) = Len(INITIAL_DATA) + 1
    /\ transactions[10].id = FirstImportId
    /\ transactions[10].category = "Uncategorized"
    /\ input = NoItem

\* the list a response makes of a list: each transaction named in the
\* response with the category and flag of the first record that names it
MergeOf(prev, results) ==
    [i \in 1..Len(prev) |->
        LET ms == {k \in 1..Len(results) : results[k].id = prev[i].id}
        IN  IF ms = {} THEN prev[i]
            ELSE [f \in DOMAIN prev[i] \cup {"isAnomaly"} |->
                    CASE f = "category"  -> results[Min(ms)].category
                      [] f = "isAnomaly" -> results[Min(ms)].isAnomaly
                      [] OTHER           -> prev[i][f]]]

\* C17: a categorize call is not cancelled by a view switch: leaving the
\* view leaves the call outstanding, and when its response arrives with the
\* list view closed the response is merged into the store, and the merged
\* list is then persisted, as it is with the view open.
NoCancellation ==
    [][ /\ event'.op = "setCurrentView" => Len(catCalls') = Len(catCalls)
        /\ (event'.op = "categorizeSettled" /\ IsJsonResponse(event'.outcome)) =>
             /\ transactions' = MergeOf(transactions, event'.outcome.text.value)
             /\ persistDue'
        /\ event'.op = "useEffect" =>
             /\ transactions' = transactions
             /\ storage' = [i \in 1..Len(transactions) |-> Serialized(transactions[i])]
      ]_vars

\* C17 witness: the response for transaction 9 arrived with the Dashboard on
\* screen and is in the store and in the persisted text
NoCancellationWitness ==
    /\ event.op = "useEffect"
    /\ event.after.op = "categorizeSettled"
    /\ ~event.after.mounted
    /\ currentView = DASHBOARD
    /\ event.after.outcome = Resolved(JsonText(<<CategorizedRecord("9", "Shopping", TRUE)>>))
    /\ transactions[9].category = "Shopping"
    /\ transactions[9].isAnomaly
    /\ storage[9].category = "Shopping"

\* C18 as stated: a categorize merge changes only transactions that are
\* Uncategorized (or without category) when the response is merged; every
\* other transaction keeps its category and anomaly flag.
MergeOnlyUncategorized ==
    [][ event'.op = "categorizeSettled" =>
        \A i \in 1..Len(transactions) :
            ~IsUncategorized(transactions[i]) => transactions'[i] = transactions[i]
      ]_vars

\* C18: a categorize merge changes every transaction the response names,
\* whatever its category when the response is merged: a transaction that
\* carries another category by then, by a hand edit made while the call was
\* in flight or because its id was never sent, takes the category and
\* anomaly flag of the response; it keeps them only if the response does not
\* name its id.
MergeWhateverCategory ==
    [][ (event'.op = "categorizeSettled" /\ IsJsonResponse(event'.outcome)) =>
        LET results == event'.outcome.text.value
        IN  \A i \in 1..Len(transactions) :
              ~IsUncategorized(transactions[i]) =>
                LET ms == {k \in 1..Len(results) : results[k].id = transactions[i].id}
                IN  /\ ms = {} => transactions'[i] = transactions[i]
                    /\ ms # {} => /\ transactions'[i].category = results[Min(ms)].category
                                  /\ transactions'[i].isAnomaly = results[Min(ms)].isAnomaly
      ]_vars

\* C18 witness: the request held transaction 9 alone, the response named
\* transaction 3, which was Transportation all along and is now Shopping
\* and flagged
MergeWhateverCategoryWitness ==
    /\ event.op = "categorizeSettled"
    /\ IdsOf(event.sent) = {"9"}
    /\ event.outcome = Resolved(JsonText(<<CategorizedRecord("3", "Shopping", TRUE)>>))
    /\ INITIAL_DATA[3].category = "Transportation"
    /\ transactions[3].id = "3"
    /\ transactions[3].category = "Shopping"
    /\ transactions[3].isAnomaly

\* C19: after any sequence of imports on top of the seed data the
\* transactions of the store have pairwise distinct ids.
DistinctIds ==
    \A i, j \in 1..Len(transactions) :
        i # j => transactions[i].id # transactions[j].id

====
